---- MODULE Spec2Model ----
(***************************************************************************)
(* The communication bridge of the AI predictor (RustBridge) and the       *)
(* connection-supervision activity of AIPredictorSystem, as a state        *)
(* machine.  One action is one atomic stretch of a coroutine: the code     *)
(* between two suspension points of the single-threaded event loop.        *)
(***************************************************************************)
EXTENDS Integers, Sequences, FiniteSets

\* ------------------------------------------------------------- bounds
MaxConn    == 2   \* successful connect() calls, i.e. sender/receiver loop generations
MaxEnq     == 3   \* envelopes enqueued by the send_* operations
MaxErrors  == 2   \* failed connect() calls
MaxInbound == 2   \* messages the counterpart pushes to the bridge
MaxCalls   == 2   \* get_performance_feedback invocations
MaxTime    == 5   \* wall-clock seconds observed by int(time.time())
MaxDisc    == 2   \* disconnect() calls between two connect() calls
MaxOpps    == 2   \* opportunities found by one MEV scan

\* ---------------------------------------------------------- constants
FeedbackTimeout == 5      \* asyncio.wait_for(future, timeout=5.0)
MinConfidence == 80       \* MEVConfig.min_confidence = 0.8, in hundredths
UpdateInterval == 3600       \* model_update_loop: seconds between iterations
UpdateRecoverPause == 600    \* model_update_loop: seconds slept after an error
DefaultAccuracy == 50        \* calculate_accuracy() without history, in hundredths
SupervisionInterval == 30 \* asyncio.sleep(30) of rust_communication_loop
ReconnectPause == 1       \* asyncio.sleep(1) of reconnect()
RecoverPause == 10        \* asyncio.sleep(10) of rust_communication_loop's except

\* the observation window of the heartbeat cadence
Window == 4 * SupervisionInterval

Protocols == {"websocket", "redis", "tcp"}
\* The protocol AIPredictorSystem hands to the bridge is the str of
\* CommunicationConfig ("websocket"), which is equal to no member of
\* CommunicationProtocol: no protocol branch of the bridge is taken for it.
NoVariant == "str"
SendKinds == {"prediction", "mev_opportunity", "metrics"}
InboundTypes == {"feedback_response", "config_update", "status_request", "unknown"}
NoId      == -1           \* message.get("request_id") is None
StrayId   == -2           \* a request_id no call of this bridge ever used

\* the activities of start() other than rust_communication_loop
Activities == { "prediction_loop", "market_data_loop", "mev_detection_loop",
                "model_update_loop", "metrics_reporting_loop" }

Tasks == 1..MaxConn
Calls == 1..MaxCalls

VARIABLES
  protocol,           \* self.protocol, chosen at construction
  connected,          \* self.connected
  handle,             \* the transport object of the protocol: "none" | "open" | "closed" | "broken"
  outbound_queue,     \* self.outbound_queue
  response_futures,   \* self.response_futures: request_id -> the call whose Future it holds
  messages_sent,
  messages_received,
  connection_errors,
  senders,            \* position of each _message_sender task
  receivers,          \* position of each _message_receiver task
  sup,                \* position of initialize() / rust_communication_loop
  inbox,              \* messages pushed by the counterpart, not yet read
  now,                \* int(time.time())
  calls,              \* each get_performance_feedback invocation
  wire,               \* history: envelopes handed to the transport, in order
  dropped,            \* history: envelopes whose write raised
  enq,                \* history: number of envelopes ever enqueued
  connFails,          \* history: number of failed connect() calls
  arrived,            \* history: number of messages the counterpart has pushed
  handled,            \* history: what the receiver did with each message it read
  running,            \* AIPredictorSystem.running
  starter,            \* position of start()
  acts,               \* position of each of the other five activities
  collector,          \* the data collaborator: "new" | "open" | "closed"
  mev_detected,       \* metrics["mev_opportunities_detected"]
  stops,              \* history: number of stop() calls that have ended
  stop_result,        \* history: how the latest stop() call ended
  passed,             \* history: the confidences above the threshold among
                      \* the opportunities scanned so far, in scan order
  disc,               \* history: how each disconnect() since the latest
                      \* connect() ended, in call order (the first MaxDisc)
  silence,            \* time-units from the latest heartbeat, or from the
                      \* start, to the end of the supervision activity's
                      \* present wait (counted up to Window)
  published,          \* the publish calls made on the redis client: channel
                      \* and type of the message, in call order
  feedback,           \* the result set on the Future of each call
  accuracy_score,     \* metrics["accuracy_score"], in hundredths
  model_updates,      \* history: number of update_models() calls
  cycles              \* history: the sleep that ended each iteration of
                      \* model_update_loop, in seconds

lifeVars == << running, starter, acts, collector, mev_detected, stops,
               stop_result, passed >>

updVars == << accuracy_score, model_updates, cycles >>

sysVars == << lifeVars, disc, silence, published, feedback, updVars >>

vars == << protocol, connected, handle, outbound_queue, response_futures,
           messages_sent, messages_received, connection_errors, senders,
           receivers, sup, inbox, now, calls, wire, dropped, enq, connFails,
           arrived, handled, sysVars >>

bridgeVars == << connected, handle, outbound_queue, response_futures,
                 messages_sent, messages_received, connection_errors >>

\* ------------------------------------------------------------ helpers
Range(s) == { s[i] : i \in 1..Len(s) }

Running(pc) == pc \notin {"none", "done"}

\* The transport of the selected protocol is usable.
Usable == connected /\ handle = "open"

\* the read of the receiver loop awaits: wait_for(websocket.recv(), 1.0) and
\* wait_for(tcp_reader.readline(), 1.0) do, _receive_redis has no await
Suspends(p) == p # "redis"

\* _receive_redis returns None without ever suspending, so on the redis
\* protocol a started receiver loop never hands the event loop back.
Hogged == protocol = "redis" /\ \E r \in Tasks : receivers[r] = "recv"

\* the top-level keys of the dict each operation builds: send_heartbeat puts
\* its timestamp inside data, get_performance_feedback puts a request_id and
\* no data
TopLevel(type) ==
  CASE type = "heartbeat" -> {"type", "data"}
    [] type = "request_feedback" -> {"type", "request_id", "timestamp"}
    [] OTHER -> {"type", "data", "timestamp"}

\* {type, data, timestamp} as built by the send_* operations; n (the enqueue
\* index), src (the producer) and gap (enqueued while the transport was
\* unusable) are bookkeeping for the properties.
EnvelopeAt(type, src, data, usable) ==
  [ n |-> enq + 1, type |-> type, src |-> src, gap |-> ~usable, data |-> data,
    keys |-> TopLevel(type) ]

Envelope(type, src, data) == EnvelopeAt(type, src, data, Usable)

\* _send_message: outbound_queue.put(message); the queue is unbounded.
SendMessageIfConnected(q, env) == IF connected THEN Append(q, env) ELSE q

SendMessage(q, env) == Append(q, env)

Init ==
  /\ protocol \in Protocols \cup {NoVariant}
  /\ connected = FALSE
  /\ handle = "none"
  /\ outbound_queue = << >>
  /\ response_futures = [k \in {} |-> 0]
  /\ messages_sent = 0
  /\ messages_received = 0
  /\ connection_errors = 0
  /\ senders = [t \in Tasks |-> "none"]
  /\ receivers = [t \in Tasks |-> "none"]
  /\ sup = "init"
  /\ inbox = << >>
  /\ now = 0
  /\ calls = [c \in Calls |-> [pc |-> "idle", rid |-> NoId, fut |-> "pending"]]
  /\ wire = << >>
  /\ dropped = {}
  /\ enq = 0
  /\ connFails = 0
  /\ arrived = 0
  /\ handled = {}
  /\ running = FALSE
  /\ starter = "new"
  /\ acts = [a \in Activities |-> "none"]
  /\ collector = "new"
  /\ mev_detected = 0
  /\ stops = 0
  /\ stop_result = "none"
  /\ passed = << >>
  /\ disc = << >>
  /\ silence = 0
  /\ published = << >>
  /\ feedback = [c \in Calls |-> "none"]
  /\ accuracy_score = 0
  /\ model_updates = 0
  /\ cycles = << >>

\* ------------------------------------------------------------ connect
\* connect(), success: the handle is replaced, connected is set and a new
\* sender task and a new receiver task are created; nobody cancels or awaits
\* the tasks of an earlier connect().  A created task runs before any other
\* coroutine resumes, so it is at its first wait when the step ends.
NewTask == 1 + Cardinality({ t \in Tasks : senders[t] # "none" })

ConnectOk ==
  /\ protocol \in Protocols
  /\ NewTask \in Tasks
  /\ handle' = "open"
  /\ connected' = TRUE
  /\ senders' = [senders EXCEPT ![NewTask] = "get"]
  /\ receivers' = [receivers EXCEPT ![NewTask] = "recv"]
  /\ UNCHANGED << connection_errors, connFails >>

\* connect(), failure: logged, counted, reported as False; no retry.
ConnectFail ==
  /\ protocol \in Protocols
  /\ connFails < MaxErrors
  /\ connection_errors' = connection_errors + 1
  /\ connFails' = connFails + 1
  /\ UNCHANGED << handle, connected, senders, receivers >>

\* connect() with a protocol that is no member of the enum: no _connect_* is
\* called, self.connected = True is executed, and the log line that follows
\* raises on self.protocol.value; the except branch counts the error and
\* reports False, with the flag left set and no task created.
ConnectMistyped ==
  /\ protocol = NoVariant
  /\ connFails < MaxErrors
  /\ connected' = TRUE
  /\ connection_errors' = connection_errors + 1
  /\ connFails' = connFails + 1
  /\ UNCHANGED << handle, senders, receivers >>

Connect ==
  /\ ConnectOk \/ ConnectFail \/ ConnectMistyped
  /\ disc' = << >>

\* start(): initialize() initialises the collaborators and awaits connect();
\* its result is not looked at: initialize() returns True, start() sets
\* running and creates the six activities, then awaits them.
InitConnect ==
  /\ sup = "init"
  /\ starter = "new"
  /\ Connect
  /\ sup' = "idle"
  /\ running' = TRUE
  /\ starter' = "gather"
  /\ acts' = [a \in Activities |-> "run"]
  /\ collector' = "open"
  /\ UNCHANGED << mev_detected, stops, stop_result, passed, silence, published, feedback, updVars >>
  /\ UNCHANGED << protocol, outbound_queue, response_futures, messages_sent,
                  messages_received, inbox, now, calls, wire, dropped, enq, arrived,
                  handled >>

\* ----------------------------------------------------------- producers
\* send_prediction / send_mev_opportunity / send_metrics: build the envelope
\* and put it on the queue, whatever the connection state.
Send(kind) ==
  /\ sup # "init"
  /\ ~Hogged
  /\ enq < MaxEnq
  /\ outbound_queue' = SendMessage(outbound_queue,
                                   Envelope(kind, kind, [payload |-> kind]))
  /\ enq' = enq + 1
  /\ UNCHANGED << sysVars, protocol, connected, handle, response_futures, messages_sent,
                  messages_received, connection_errors, senders, receivers,
                  sup, inbox, now, calls, wire, dropped, connFails, arrived, handled >>

\* ------------------------------------------------------------- sender
\* asyncio.Queue.get(): the oldest element.
NextIndexLifo(q) == Len(q)

NextIndex(q) == 1

RemoveNone(q, i) == q

Remove(q, i) == [ j \in 1..(Len(q) - 1) |-> IF j < i THEN q[j] ELSE q[j + 1] ]

\* except Exception in _message_sender: count the error, sleep(1), loop on.
\* "sleepd" is a sleep that began during the sleep(1) of reconnect().
SenderOnErrorCrash == "done"

SenderOnError == IF sup = "backoff" THEN "sleepd" ELSE "sleep"

\* the while self.connected test at the head of both loops
LoopHead(waiting) == IF connected THEN waiting ELSE "done"

\* _send_redis: channel = f"ai_to_rust_{message['type']}"
Channel(type) == << "ai_to_rust", type >>

\* redis_client.publish(channel, json.dumps(message))
Publish(p, type) == Append(p, [ channel |-> Channel(type), type |-> type ])

\* the types of the messages the bridge builds
OutboundTypes == SendKinds \cup {"heartbeat", "request_feedback", "status_response"}

\* _send_redis(message) on its own, for a message of each outbound type:
\* with a client present the message is published on the channel of its type
SendRedis(type) ==
  /\ protocol = "redis"
  /\ handle # "none"
  /\ Len(published) < MaxEnq
  /\ published' = Publish(published, type)
  /\ UNCHANGED << lifeVars, disc, silence, feedback, updVars, protocol, bridgeVars,
                  senders, receivers,
                  sup, inbox, now, calls, wire, dropped, enq, connFails, arrived,
                  handled >>

\* _message_sender: queue.get() returns and the envelope is handed to the
\* transport of the protocol in the same stretch (tcp_writer.write,
\* websocket.send, redis publish).  A closed transport raises; an open one may
\* raise as well (json.dumps, an I/O error).  With no transport object the
\* _send_* methods do nothing and the envelope is counted as sent.
SenderGet(s) ==
  /\ senders[s] = "get"
  /\ ~Hogged
  /\ outbound_queue # << >>
  /\ LET i == NextIndex(outbound_queue)
         msg == outbound_queue[i]
     IN /\ outbound_queue' = Remove(outbound_queue, i)
        /\ IF handle = "none"
           THEN /\ messages_sent' = messages_sent + 1
                /\ senders' = [senders EXCEPT ![s] = LoopHead("get")]
                /\ UNCHANGED << wire, dropped, connection_errors >>
           ELSE \/ /\ handle = "open"
                   /\ wire' = Append(wire, msg)
                   /\ senders' = [senders EXCEPT ![s] = "drain"]
                   /\ UNCHANGED << dropped, messages_sent, connection_errors >>
                \/ /\ connection_errors' = connection_errors + 1
                   /\ dropped' = dropped \cup {msg}
                   /\ senders' = [senders EXCEPT ![s] = SenderOnError]
                   /\ UNCHANGED << wire, messages_sent >>
        /\ published' = IF protocol = "redis" /\ wire' # wire
                        THEN Publish(published, msg.type) ELSE published
  /\ UNCHANGED << lifeVars, disc, silence, feedback, updVars, protocol, connected, handle, response_futures,
                  messages_received, receivers, sup, inbox, now, calls, enq,
                  connFails, arrived, handled >>

\* the awaited write returns: messages_sent += 1, back to the loop head
SenderSent(s) ==
  /\ senders[s] = "drain"
  /\ ~Hogged
  /\ messages_sent' = messages_sent + 1
  /\ senders' = [senders EXCEPT ![s] = LoopHead("get")]
  /\ UNCHANGED << sysVars, protocol, connected, handle, outbound_queue, response_futures,
                  messages_received, connection_errors, receivers, sup, inbox,
                  now, calls, wire, dropped, enq, connFails, arrived, handled >>

\* the awaited write ends with TimeoutError (tcp: the peer has stopped
\* acknowledging and the connection times out, errno ETIMEDOUT).  The
\* `except asyncio.TimeoutError: continue` written for the queue wait catches
\* it: nothing is counted, nothing sleeps, back to the loop head.  The
\* connection is lost with that error.
SenderWriteTimeout(s) ==
  /\ senders[s] = "drain"
  /\ protocol = "tcp"
  /\ handle = "open"
  /\ ~Hogged
  /\ handle' = "broken"
  /\ senders' = [senders EXCEPT ![s] = LoopHead("get")]
  /\ UNCHANGED << sysVars, protocol, connected, outbound_queue, response_futures,
                  messages_sent, messages_received, connection_errors, receivers, sup,
                  inbox, now, calls, wire, dropped, enq, connFails, arrived, handled >>

\* wait_for(queue.get(), timeout=1.0) times out on an empty queue: continue.
\* While connected this re-arms the same wait; once disconnected the loop ends.
SenderTimeout(s) ==
  /\ senders[s] = "get"
  /\ ~Hogged
  /\ outbound_queue = << >>
  /\ ~connected
  /\ senders' = [senders EXCEPT ![s] = LoopHead("get")]
  /\ UNCHANGED << sysVars, protocol, bridgeVars, receivers, sup, inbox, now, calls, wire, dropped,
                  enq, connFails, arrived, handled >>

\* asyncio.sleep(1) after an error is over
SenderWake(s) ==
  /\ senders[s] \in {"sleep", "sleepd"}
  /\ ~Hogged
  /\ senders' = [senders EXCEPT ![s] = LoopHead("get")]
  /\ UNCHANGED << sysVars, protocol, bridgeVars, receivers, sup, inbox, now, calls, wire, dropped,
                  enq, connFails, arrived, handled >>

\* the peer closes the connection, or the link is lost
TransportFail ==
  /\ handle = "open"
  /\ handle' = "closed"
  /\ UNCHANGED << sysVars, protocol, connected, outbound_queue, response_futures,
                  messages_sent, messages_received, connection_errors, senders,
                  receivers, sup, inbox, now, calls, wire, dropped, enq, connFails,
                  arrived, handled >>

\* the peer resets a tcp connection: the transport is lost with an error,
\* which the StreamWriter keeps and wait_closed() raises from then on
TransportReset ==
  /\ handle = "open"
  /\ protocol = "tcp"
  /\ handle' = "broken"
  /\ UNCHANGED << sysVars, protocol, connected, outbound_queue, response_futures,
                  messages_sent, messages_received, connection_errors, senders,
                  receivers, sup, inbox, now, calls, wire, dropped, enq, connFails,
                  arrived, handled >>

\* ----------------------------------------------------------- receiver
Put(f, k, v) == [ x \in DOMAIN f \cup {k} |-> IF x = k THEN v ELSE f[x] ]

Without(f, ks) == [ x \in DOMAIN f \ ks |-> f[x] ]

\* if request_id in self.response_futures: the entries a feedback_response
\* with this request_id addresses
MatchingSlots(rf, rid) == IF rid \in DOMAIN rf THEN {rid} ELSE {}

\* self.response_futures.pop(request_id)
PopSlotsKeep(rf, ks) == rf

PopSlots(rf, ks) == Without(rf, ks)

\* the data of a status_response: the counters as they are when the
\* status_request is handled (messages_received is incremented afterwards)
StatusDataLate ==
  [ status |-> "running", connected |-> TRUE, messages_sent |-> messages_sent,
    messages_received |-> messages_received + 1,
    connection_errors |-> connection_errors ]

StatusData ==
  [ status |-> "running", connected |-> TRUE, messages_sent |-> messages_sent,
    messages_received |-> messages_received,
    connection_errors |-> connection_errors ]

\* what _handle_received_message does with a message of each type; "popped"
\* is an entry removed whose Future was done already (if not future.done())
Effect(m) ==
  CASE m.type = "feedback_response" ->
         LET ks == MatchingSlots(response_futures, m.request_id) IN
         IF ks = {} THEN "noop"
         ELSE IF \E k \in ks : calls[response_futures[k]].fut = "pending"
              THEN "resolved" ELSE "popped"
    [] m.type = "config_update" -> "config"
    [] m.type = "status_request" -> "status"
    [] OTHER -> "unknown"

\* message.get("data"): None when the message has no such key
Data(m) == IF "data" \in DOMAIN m THEN m.data ELSE "none"

\* _handle_received_message(message)
HandleReceived(m) ==
  /\ IF m.type = "feedback_response"
     THEN LET ks == MatchingSlots(response_futures, m.request_id) IN
          /\ response_futures' = PopSlots(response_futures, ks)
          /\ calls' = [ c \in Calls |->
                        IF /\ \E k \in ks : response_futures[k] = c
                           /\ calls[c].fut = "pending"
                        THEN [calls[c] EXCEPT !.fut = "resolved"]
                        ELSE calls[c] ]
          /\ feedback' = [ c \in Calls |->
                           IF /\ \E k \in ks : response_futures[k] = c
                              /\ calls[c].fut = "pending"
                           THEN Data(m) ELSE feedback[c] ]
     ELSE UNCHANGED << response_futures, calls, feedback >>
  /\ IF m.type = "status_request"
     THEN /\ outbound_queue' =
               SendMessage(outbound_queue,
                           Envelope("status_response", "receiver", StatusData))
          /\ enq' = enq + 1
     ELSE UNCHANGED << outbound_queue, enq >>
  /\ handled' = handled \cup {[ request_id |-> m.request_id, effect |-> Effect(m) ]}

\* what the counterpart may send that is no message: bytes that are not JSON
\* (json.loads raises in _receive_websocket / _receive_tcp) and JSON that is
\* not an object, such as a list (message.get raises in the handler)
Undecodable == {"not_json", "not_object"}

Raises(d) == d.type \in Undecodable

\* _message_receiver: except Exception, the loop logs and sleeps one second
ReceiverOnErrorEnds == "done"

ReceiverOnError == "sleep"

\* _message_receiver on websocket and tcp: a message is read, handled and
\* counted in one stretch (the handler never suspends)
ReceiverRead(r) ==
  /\ receivers[r] = "recv"
  /\ protocol # "redis"
  /\ handle = "open"
  /\ inbox # << >>
  /\ ~Raises(Head(inbox))
  /\ HandleReceived(Head(inbox))
  /\ inbox' = Tail(inbox)
  /\ messages_received' = messages_received + 1
  /\ receivers' = [receivers EXCEPT ![r] = LoopHead("recv")]
  /\ UNCHANGED << lifeVars, disc, silence, published, updVars, protocol, connected,
                  handle, messages_sent, connection_errors, senders, sup, now, wire,
                  dropped, connFails, arrived >>

\* _message_receiver on websocket and tcp: what was read cannot be decoded
\* or is not an object; the exception leaves the try block, nothing is
\* handled or counted, and the loop sleeps one second
ReceiverUndecodable(r) ==
  /\ receivers[r] = "recv"
  /\ protocol # "redis"
  /\ handle = "open"
  /\ inbox # << >>
  /\ Raises(Head(inbox))
  /\ inbox' = Tail(inbox)
  /\ receivers' = [receivers EXCEPT ![r] = ReceiverOnError]
  /\ UNCHANGED << sysVars, protocol, bridgeVars, senders, sup, now, calls, wire, dropped,
                  enq, connFails, arrived, handled >>

\* websocket.recv() on a closed connection raises, and so does readline() on
\* a tcp connection that was reset: except Exception, sleep(1)
ReceiverError(r) ==
  /\ receivers[r] = "recv"
  /\ \/ protocol = "websocket" /\ handle = "closed"
     \/ handle = "broken"
  /\ receivers' = [receivers EXCEPT ![r] = "sleep"]
  /\ UNCHANGED << sysVars, protocol, bridgeVars, senders, sup, inbox, now, calls, wire, dropped,
                  enq, connFails, arrived, handled >>

\* nothing was read (the 1.0 s read timed out, or tcp readline returned the
\* end of the stream): None, back to the loop head.  While connected this
\* re-arms the same read.
ReceiverIdle(r) ==
  /\ receivers[r] = "recv"
  /\ protocol # "redis"
  /\ ~connected
  /\ \/ handle = "open" /\ inbox = << >>
     \/ handle = "closed" /\ protocol = "tcp"
  /\ receivers' = [receivers EXCEPT ![r] = LoopHead("recv")]
  /\ UNCHANGED << sysVars, protocol, bridgeVars, senders, sup, inbox, now, calls, wire, dropped,
                  enq, connFails, arrived, handled >>

ReceiverWake(r) ==
  /\ receivers[r] = "sleep"
  /\ ~Hogged
  /\ receivers' = [receivers EXCEPT ![r] = LoopHead("recv")]
  /\ UNCHANGED << sysVars, protocol, bridgeVars, senders, sup, inbox, now, calls, wire, dropped,
                  enq, connFails, arrived, handled >>

\* _message_receiver on redis: _receive_redis returns None at once, the loop
\* tests self.connected and calls it again, without a suspension point
ReceiverSpin(r) ==
  /\ receivers[r] = "recv"
  /\ protocol = "redis"
  /\ UNCHANGED vars

\* the counterpart pushes a message
UsedIds == { calls[c].rid : c \in { d \in Calls : calls[d].pc # "idle" } }

InboundMessages ==
  [ type : {"feedback_response"}, request_id : UsedIds \cup {NoId, StrayId} ]
    \cup [ type : InboundTypes \ {"feedback_response"}, request_id : {NoId} ]

Inbound(m) ==
  /\ arrived < MaxInbound
  /\ handle = "open"
  /\ inbox' = Append(inbox, m)
  /\ arrived' = arrived + 1
  /\ UNCHANGED << sysVars, protocol, bridgeVars, senders, receivers, sup, now, calls,
                  wire, dropped, enq, connFails, handled >>

\* the counterpart pushes something that is no message
InboundUndecodable(kind) ==
  /\ arrived < MaxInbound
  /\ handle = "open"
  /\ inbox' = Append(inbox, [ type |-> kind, request_id |-> NoId ])
  /\ arrived' = arrived + 1
  /\ UNCHANGED << sysVars, protocol, bridgeVars, senders, receivers, sup, now, calls,
                  wire, dropped, enq, connFails, handled >>

\* --------------------------------------------------------- supervision
\* is_connected(): the flag, then the probe of the protocol
IsConnectedFlagOnly == connected

IsConnected == connected /\ handle = "open"

\* send_heartbeat(): the liveness counters, enqueued like any other envelope
Heartbeat(usable) ==
  EnvelopeAt("heartbeat", "supervisor",
             [ status |-> "alive", messages_sent |-> messages_sent,
               messages_received |-> messages_received ], usable)

\* The waits of the loops last one second (sleep(1), the 1.0 s timeouts); the
\* supervision activity sleeps 30 s between iterations and reconnect() sleeps
\* 1 s after disconnect() and then awaits the connection.  A wait that began
\* before that sleep did has ended by the time connect() returns, and so has
\* a write that was being awaited; a sleep that began during it ("sleepd",
\* after a write that raised) may still be going on, and has ended by the
\* next iteration.
\* queue.get() returns as soon as the queue holds an envelope: a waiting
\* sender loop takes it before any of the supervision activity's waits ends.
NoReadyGetter ==
  \A t \in Tasks : senders[t] = "get" => outbound_queue = << >>

ExpiredAtConnect ==
  \A t \in Tasks : /\ senders[t] \notin {"get", "drain", "sleep"}
                   /\ receivers[t] \notin {"recv", "sleep"}

ExpiredAtProbe ==
  \A t \in Tasks : /\ senders[t] # "sleepd"
                   /\ NoReadyGetter
                   /\ ~connected => /\ senders[t] \notin {"get", "drain", "sleep"}
                                    /\ receivers[t] \notin {"recv", "sleep"}

\* `if not await self.rust_bridge.is_connected()`: the one condition under
\* which an iteration calls reconnect()
NeedsReconnectOrLost == ~IsConnected \/ dropped # {}

NeedsReconnect == ~IsConnected

\* the silence after a further wait of d time-units
Later(s, d) == IF s + d > Window THEN Window ELSE s + d

\* the record of disconnect() outcomes with one more outcome
Noted(h, outcome) == IF Len(h) < MaxDisc THEN Append(h, outcome) ELSE h

\* rust_communication_loop, one iteration whose probe succeeds: heartbeat,
\* then sleep(30)
SupProbeOk ==
  /\ sup = "idle"
  /\ running
  /\ ~Hogged
  /\ ExpiredAtProbe
  /\ enq < MaxEnq
  /\ ~NeedsReconnect
  /\ outbound_queue' = SendMessage(outbound_queue, Heartbeat(Usable))
  /\ enq' = enq + 1
  /\ silence' = SupervisionInterval
  /\ UNCHANGED << lifeVars, disc, published, feedback, updVars, protocol, connected, handle, response_futures, messages_sent,
                  messages_received, connection_errors, senders, receivers,
                  sup, inbox, now, calls, wire, dropped, connFails, arrived, handled >>

\* ... whose probe fails: reconnect() begins with disconnect(), which clears
\* the flag and awaits the close of the transport object, if there is one
SupProbeFail ==
  /\ sup = "idle"
  /\ running
  /\ ~Hogged
  /\ ExpiredAtProbe
  /\ enq < MaxEnq
  /\ NeedsReconnect
  /\ connected' = FALSE
  /\ sup' = IF handle = "none" THEN "backoff" ELSE "closing"
  /\ disc' = IF handle = "none" THEN Noted(disc, "ok") ELSE disc
  /\ silence' = IF handle = "none" THEN Later(silence, ReconnectPause) ELSE silence
  /\ UNCHANGED << lifeVars, published, feedback, updVars, protocol, handle, outbound_queue, response_futures,
                  messages_sent, messages_received, connection_errors, senders,
                  receivers, inbox, now, calls, wire, dropped, enq, connFails, arrived,
                  handled >>

\* the transport handle after disconnect() has closed it
Closed(h) == IF h \in {"none", "broken"} THEN h ELSE "closed"

\* tcp_writer.wait_closed() raises the error the connection was lost with
DisconnectRaisesOnClosed == handle \in {"broken", "closed"}

DisconnectRaises == handle = "broken"

\* how a disconnect() call on the present handle ends
Disconnected == IF DisconnectRaises THEN "raised" ELSE "ok"

\* except Exception in the body of an activity: log, sleep, next iteration
ActivityOnErrorCrash == "failed"

ActivityOnError == "recover"

\* (a disconnect() that also empties the correlation table)
SupClosedClearing ==
  /\ sup = "closing"
  /\ ~Hogged
  /\ NoReadyGetter
  /\ handle' = Closed(handle)
  /\ disc' = Noted(disc, Disconnected)
  /\ silence' = Later(silence, IF DisconnectRaises THEN RecoverPause ELSE ReconnectPause)
  /\ sup' = IF DisconnectRaises THEN ActivityOnError ELSE "backoff"
  /\ response_futures' = [k \in {} |-> 0]
  /\ UNCHANGED << lifeVars, published, feedback, updVars, protocol, connected, outbound_queue,
                  messages_sent, messages_received, connection_errors, senders,
                  receivers, inbox, now, calls, wire, dropped, enq, connFails, arrived,
                  handled >>

\* disconnect(): the close has completed and reconnect() goes on to sleep(1);
\* or it has raised, out of reconnect() and into the except branch of the
\* loop, which sleeps 10 s
SupClosed ==
  /\ sup = "closing"
  /\ ~Hogged
  /\ NoReadyGetter
  /\ handle' = Closed(handle)
  /\ disc' = Noted(disc, Disconnected)
  /\ silence' = Later(silence, IF DisconnectRaises THEN RecoverPause ELSE ReconnectPause)
  /\ sup' = IF DisconnectRaises THEN ActivityOnError ELSE "backoff"
  /\ UNCHANGED << lifeVars, published, feedback, updVars, protocol, connected, outbound_queue, response_futures,
                  messages_sent, messages_received, connection_errors, senders,
                  receivers, inbox, now, calls, wire, dropped, enq, connFails, arrived,
                  handled >>

\* reconnect(): connect() after the sleep; whatever it returns the iteration
\* goes on to send_heartbeat() and sleep(30)
SupConnect ==
  /\ sup = "backoff"
  /\ ~Hogged
  /\ ExpiredAtConnect
  /\ enq < MaxEnq
  /\ Connect
  /\ outbound_queue' = SendMessage(outbound_queue, Heartbeat(Usable'))
  /\ enq' = enq + 1
  /\ sup' = "idle"
  /\ silence' = SupervisionInterval
  /\ UNCHANGED << lifeVars, published, feedback, updVars, protocol, response_futures, messages_sent, messages_received,
                  inbox, now, calls, wire, dropped, arrived, handled >>

\* ------------------------------------------------ get_performance_feedback
\* request_id = f"feedback_{int(time.time())}"
RequestId == now

\* del self.response_futures[request_id] in the timeout handler
TimeoutRemove(rf, rid) == Without(rf, {rid})

\* the request is built, its Future registered under request_id (replacing
\* whatever was registered there) and the request enqueued; then the call
\* waits for the Future
CallStart(c) ==
  /\ calls[c].pc = "idle"
  /\ \A d \in Calls : d < c => calls[d].pc # "idle"
  /\ sup # "init"
  /\ ~Hogged
  /\ response_futures' = Put(response_futures, RequestId, c)
  /\ outbound_queue' =
       SendMessage(outbound_queue,
                   Envelope("request_feedback", "feedback",
                            [ request_id |-> RequestId ]))
  /\ enq' = enq + 1
  /\ calls' = [calls EXCEPT ![c] = [ pc |-> "wait", rid |-> RequestId,
                                     fut |-> "pending" ]]
  /\ UNCHANGED << sysVars, protocol, connected, handle, messages_sent, messages_received,
                  connection_errors, senders, receivers, sup, inbox, now, wire, dropped,
                  connFails, arrived, handled >>

\* the Future has a result: wait_for returns it
CallReturn(c) ==
  /\ calls[c].pc = "wait"
  /\ calls[c].fut = "resolved"
  /\ ~Hogged
  /\ calls' = [calls EXCEPT ![c].pc = "returned"]
  /\ UNCHANGED << sysVars, protocol, bridgeVars, senders, receivers, sup, inbox, now,
                  wire, dropped, enq, connFails, arrived, handled >>

\* 5.0 s have passed with the Future still pending: the timer of wait_for
\* fires and the Future is cancelled.  The call itself resumes in a later
\* iteration of the event loop; the entry stays in the table until then.
CallExpire(c) ==
  /\ calls[c].pc = "wait"
  /\ calls[c].fut = "pending"
  /\ now >= calls[c].rid + FeedbackTimeout
  /\ ~Hogged
  /\ calls' = [calls EXCEPT ![c].pc = "expired", ![c].fut = "cancelled"]
  /\ UNCHANGED << sysVars, protocol, bridgeVars, senders, receivers, sup, inbox, now,
                  wire, dropped, enq, connFails, arrived, handled >>

\* the call resumes with TimeoutError: the handler deletes the entry and
\* returns None.  The del raises KeyError when the entry is gone, and nothing
\* catches that.
CallTimeout(c) ==
  /\ calls[c].pc = "expired"
  /\ ~Hogged
  /\ IF calls[c].rid \in DOMAIN response_futures
     THEN /\ response_futures' = TimeoutRemove(response_futures, calls[c].rid)
          /\ calls' = [calls EXCEPT ![c].pc = "empty"]
     ELSE /\ calls' = [calls EXCEPT ![c].pc = "raised"]
          /\ UNCHANGED response_futures
  /\ UNCHANGED << sysVars, protocol, connected, handle, outbound_queue, messages_sent,
                  messages_received, connection_errors, senders, receivers, sup,
                  inbox, now, wire, dropped, enq, connFails, arrived, handled >>

\* a second of wall-clock time passes; a call whose wait is over (resolved,
\* or 5.0 s old) resumes before it does, and a receiver loop with a message
\* to read reads it before it does
Tick ==
  /\ now < MaxTime
  /\ Hogged \/ /\ \A c \in Calls :
                    /\ calls[c].pc # "expired"
                    /\ calls[c].pc = "wait" =>
                         /\ calls[c].fut = "pending"
                         /\ now < calls[c].rid + FeedbackTimeout
                /\ (handle = "open" /\ \E r \in Tasks : receivers[r] = "recv")
                     => inbox = << >>
  /\ now' = now + 1
  /\ UNCHANGED << sysVars, protocol, bridgeVars, senders, receivers, sup, inbox, calls,
                  wire, dropped, enq, connFails, arrived, handled >>

\* ------------------------------------------------------ model_update_loop
\* what the data of a feedback response may be: {} or a filled dictionary
FeedbackData == {"empty", "data"}

\* the counterpart answers a request of a call with data
InboundFeedback(rid, data) ==
  /\ arrived < MaxInbound
  /\ handle = "open"
  /\ rid \in UsedIds
  /\ inbox' = Append(inbox, [ type |-> "feedback_response", request_id |-> rid,
                              data |-> data ])
  /\ arrived' = arrived + 1
  /\ UNCHANGED << sysVars, protocol, bridgeVars, senders, receivers, sup, now, calls,
                  wire, dropped, enq, connFails, handled >>

\* model_update_loop, head of an iteration: get_performance_feedback() is
\* called.  The iterations follow each other, each after the sleep of the
\* one before, so that their request ids differ.
UpdateRequest(c) ==
  /\ acts["model_update_loop"] = "run"
  /\ running
  /\ Len(cycles) = c - 1
  /\ c > 1 => now > calls[c - 1].rid
  /\ CallStart(c)

\* `if feedback_data:`
Truthy(d) == d = "data"

\* calculate_accuracy(): performance_history is never written, so the
\* default is returned
CalculateAccuracy == DefaultAccuracy

\* model_update_loop, rest of the iteration once get_performance_feedback()
\* has ended: with feedback, update_models() and the accuracy score, then
\* sleep(3600); after an exception, sleep(600)
ModelCycle(c) ==
  /\ acts["model_update_loop"] = "run"
  /\ running
  /\ ~Hogged
  /\ Len(cycles) = c - 1
  /\ calls[c].pc \in {"returned", "empty", "raised"}
  /\ IF calls[c].pc = "raised"
     THEN /\ cycles' = Append(cycles, UpdateRecoverPause)
          /\ UNCHANGED << accuracy_score, model_updates >>
     ELSE /\ cycles' = Append(cycles, UpdateInterval)
          /\ IF calls[c].pc = "returned" /\ Truthy(feedback[c])
             THEN /\ model_updates' = model_updates + 1
                  /\ accuracy_score' = CalculateAccuracy
             ELSE UNCHANGED << accuracy_score, model_updates >>
  /\ UNCHANGED << lifeVars, disc, silence, published, feedback, protocol, bridgeVars,
                  senders, receivers, sup, inbox, now, calls, wire, dropped, enq,
                  connFails, arrived, handled >>

\* -------------------------------------------------------------- lifecycle
\* everything the bridge holds
bridgeState == << bridgeVars, senders, receivers, inbox, now, calls, wire,
                  dropped, enq, connFails, arrived, handled >>

\* initialize(): a collaborator's initialize() raised; logged, False returned
\* and start() returns False at once.  connect() is the last call of
\* initialize(), so the bridge was not touched; the data collaborator may or
\* may not have been initialised by then.
InitFail ==
  /\ sup = "init"
  /\ starter = "new"
  /\ starter' = "refused"
  /\ collector' \in {"new", "open"}
  /\ UNCHANGED << running, acts, mev_detected, stops, stop_result, passed,
                  disc, silence, published, feedback, updVars, protocol, bridgeState, sup >>

\* an exception in the body of one of the five activities
ActivityError(a) ==
  /\ acts[a] = "run"
  /\ running
  /\ ~Hogged
  /\ acts' = [acts EXCEPT ![a] = ActivityOnError]
  /\ UNCHANGED << running, starter, collector, mev_detected, stops, stop_result,
                  passed, disc, silence, published, feedback, updVars, protocol, bridgeState, sup >>

\* the sleep of the except branch is over: back to `while self.running`
LoopAgain == IF running THEN "run" ELSE "done"

ActivityResume(a) ==
  /\ acts[a] = "recover"
  /\ ~Hogged
  /\ acts' = [acts EXCEPT ![a] = LoopAgain]
  /\ UNCHANGED << running, starter, collector, mev_detected, stops, stop_result,
                  passed, disc, silence, published, feedback, updVars, protocol, bridgeState, sup >>

\* `while self.running` finds the flag cleared
ActivityEnd(a) ==
  /\ acts[a] = "run"
  /\ ~running
  /\ ~Hogged
  /\ acts' = [acts EXCEPT ![a] = "done"]
  /\ UNCHANGED << running, starter, collector, mev_detected, stops, stop_result,
                  passed, disc, silence, published, feedback, updVars, protocol, bridgeState, sup >>

\* rust_communication_loop, the same two steps
SupRecover ==
  /\ sup = "recover"
  /\ ~Hogged
  /\ sup' = IF running THEN "idle" ELSE "done"
  /\ UNCHANGED << sysVars, protocol, bridgeState >>

SupEnd ==
  /\ sup = "idle"
  /\ ~running
  /\ ~Hogged
  /\ sup' = "done"
  /\ UNCHANGED << sysVars, protocol, bridgeState >>

\* confidences, in hundredths, of the opportunities a scan may find
Confidences == {75, 80, 85}

Opportunities == UNION { [1..n -> Confidences] : n \in 0..MaxOpps }

\* opportunity.confidence > self.settings.mev.min_confidence
ExceedsOrEqual(c) == c >= MinConfidence

Exceeds(c) == c > MinConfidence

RECURSIVE EnqueueAll(_, _, _)
\* `for opportunity in mev_opportunities`: send_mev_opportunity for each one
\* that passes, the k-th of them getting the k-th enqueue index from n on
EnqueueAll(q, ops, n) ==
  IF ops = << >> THEN q
  ELSE EnqueueAll(SendMessage(q, [ n |-> n, type |-> "mev_opportunity",
                                   src |-> "mev_detection_loop", gap |-> ~Usable,
                                   data |-> [confidence |-> Head(ops)],
                                   keys |-> TopLevel("mev_opportunity") ]),
                  Tail(ops), n + 1)

\* mev_detection_loop, one iteration: each detected opportunity whose
\* confidence passes is sent to the bridge and counted; then sleep(0.1)
MevScan(ops) ==
  /\ acts["mev_detection_loop"] = "run"
  /\ running
  /\ ~Hogged
  /\ LET sent == SelectSeq(ops, Exceeds)
     IN  /\ enq + Len(sent) <= MaxEnq
         /\ outbound_queue' = EnqueueAll(outbound_queue, sent, enq + 1)
         /\ enq' = enq + Len(sent)
         /\ mev_detected' = mev_detected + Len(sent)
  /\ passed' = passed \o SelectSeq(ops, LAMBDA c : c > MinConfidence)
  /\ UNCHANGED << running, starter, acts, collector, stops, stop_result, disc, silence,
                  published, feedback, updVars, protocol, connected, handle, response_futures, messages_sent,
                  messages_received, connection_errors, senders, receivers, sup,
                  inbox, now, calls, wire, dropped, connFails, arrived, handled >>

\* market_collector.close()
CollectorClose(c) == "closed"

\* stop(): clear running, disconnect the bridge, close the data collaborator.
\* A disconnect() that raises ends stop() there.
StopBody ==
  /\ running' = FALSE
  /\ connected' = FALSE
  /\ handle' = Closed(handle)
  /\ disc' = Noted(disc, Disconnected)
  /\ stops' = stops + 1
  /\ stop_result' = Disconnected
  /\ collector' = IF DisconnectRaises THEN collector ELSE CollectorClose(collector)
  /\ UNCHANGED << acts, mev_detected, passed, silence, published, feedback, updVars, protocol,
                  outbound_queue,
                  response_futures, messages_sent, messages_received,
                  connection_errors, senders, receivers, sup, inbox, now, calls,
                  wire, dropped, enq, connFails, arrived, handled >>

\* stop() called on the running system
StopRequested ==
  /\ starter = "gather"
  /\ ~Hogged
  /\ Len(disc) < MaxDisc
  /\ StopBody
  /\ UNCHANGED starter

\* the six activities have all returned: gather() returns
GatherDone ==
  /\ starter = "gather"
  /\ sup = "done"
  /\ \A a \in Activities : acts[a] = "done"
  /\ starter' = "stopping"
  /\ UNCHANGED << running, acts, collector, mev_detected, stops, stop_result,
                  passed, disc, silence, published, feedback, updVars, protocol, bridgeState, sup >>

\* signal_handler: sys.exit(0) leaves the event loop, and asyncio.run cancels
\* every task on its way out; start() is cancelled in gather()
Cancelled(pc) == IF pc = "none" THEN "none" ELSE "done"

Interrupt ==
  /\ starter = "gather"
  /\ starter' = "stopping"
  /\ acts' = [a \in Activities |-> "done"]
  /\ sup' = "done"
  /\ senders' = [t \in Tasks |-> Cancelled(senders[t])]
  /\ receivers' = [t \in Tasks |-> Cancelled(receivers[t])]
  /\ UNCHANGED << running, collector, mev_detected, stops, stop_result, passed,
                  disc, silence, published, feedback, updVars, protocol, bridgeVars, inbox, now, calls, wire, dropped, enq,
                  connFails, arrived, handled >>

\* the finally clause of start(): await self.stop(), then start() is over
StartFinally ==
  /\ starter = "stopping"
  /\ StopBody
  /\ starter' = "exited"

\* ------------------------------------------------------- specification
Next ==
  \/ InitConnect
  \/ \E k \in SendKinds : Send(k)
  \/ \E s \in Tasks : SenderGet(s) \/ SenderSent(s) \/ SenderTimeout(s) \/ SenderWake(s)
  \/ \E r \in Tasks : ReceiverRead(r) \/ ReceiverError(r) \/ ReceiverIdle(r)
                        \/ ReceiverWake(r) \/ ReceiverSpin(r)
  \/ \E m \in InboundMessages : Inbound(m)
  \/ TransportFail
  \/ SupProbeOk \/ SupProbeFail \/ SupClosed \/ SupConnect
  \/ \E c \in Calls : CallStart(c) \/ CallReturn(c) \/ CallExpire(c) \/ CallTimeout(c)
  \/ Tick
  \/ InitFail
  \/ \E a \in Activities : ActivityError(a) \/ ActivityResume(a) \/ ActivityEnd(a)
  \/ \E ops \in Opportunities : MevScan(ops)
  \/ TransportReset
  \/ SupRecover \/ SupEnd
  \/ StopRequested \/ GatherDone \/ Interrupt \/ StartFinally
  \/ \E type \in OutboundTypes : SendRedis(type)
  \/ \E r \in Tasks : ReceiverUndecodable(r)
  \/ \E kind \in Undecodable : InboundUndecodable(kind)
  \/ \E c \in Calls : ModelCycle(c)
  \/ \E s \in Tasks : SenderWriteTimeout(s)
  \/ \E rid \in 0..MaxTime, data \in FeedbackData : InboundFeedback(rid, data)

Spec == Init /\ [][Next]_vars

\* The sending side on its own: producers, sender loops, the transport and
\* the supervision activity.  The receiver loops keep their loop control but
\* no message arrives.
NextSend ==
  \/ InitConnect
  \/ \E k \in SendKinds : Send(k)
  \/ \E s \in Tasks : SenderGet(s) \/ SenderSent(s) \/ SenderTimeout(s) \/ SenderWake(s)
  \/ \E r \in Tasks : ReceiverError(r) \/ ReceiverIdle(r) \/ ReceiverWake(r)
                        \/ ReceiverSpin(r)
  \/ TransportFail
  \/ SupProbeOk \/ SupProbeFail \/ SupClosed \/ SupConnect

SpecSend == Init /\ [][NextSend]_vars

\* ... with the write that times out, and the supervision activity's except
\* branch that a disconnect() on the lost connection leads to.
NextCons ==
  \/ NextSend
  \/ \E s \in Tasks : SenderWriteTimeout(s)
  \/ SupRecover

SpecCons == Init /\ [][NextCons]_vars

\* The receiving side on its own: the feedback calls, the clock, the
\* counterpart and the receiver loop of the first connect().  Nothing here
\* reads what the sender loop or the supervision activity write.
NextCorr ==
  \/ InitConnect
  \/ \E r \in Tasks : ReceiverRead(r) \/ ReceiverSpin(r)
  \/ \E m \in InboundMessages : Inbound(m)
  \/ \E c \in Calls : CallStart(c) \/ CallReturn(c) \/ CallExpire(c) \/ CallTimeout(c)
  \/ Tick

SpecCorr == Init /\ [][NextCorr]_vars

\* ... with the receiver loop scheduled whenever it has a message to read
LiveCorr == SpecCorr /\ \A r \in Tasks : WF_vars(ReceiverRead(r))

\* The orchestrator on its own: start(), the six activities, stop() and the
\* transport as the supervision activity and stop() see it.  The sender and
\* receiver loops are created and cancelled but take no step.
NextLife ==
  \/ InitConnect
  \/ InitFail
  \/ \E a \in Activities : ActivityError(a) \/ ActivityResume(a) \/ ActivityEnd(a)
  \/ \E ops \in Opportunities : MevScan(ops)
  \/ TransportFail \/ TransportReset
  \/ SupProbeOk \/ SupProbeFail \/ SupClosed \/ SupConnect \/ SupRecover \/ SupEnd
  \/ StopRequested \/ GatherDone \/ Interrupt \/ StartFinally

SpecLife == Init /\ [][NextLife]_vars

\* The supervision activity with the transport and the loops of the bridge:
\* nothing is enqueued but heartbeats, and the transport may be lost either
\* way.
NextBeat ==
  \/ InitConnect
  \/ \E s \in Tasks : SenderGet(s) \/ SenderSent(s) \/ SenderTimeout(s) \/ SenderWake(s)
  \/ \E r \in Tasks : ReceiverError(r) \/ ReceiverIdle(r) \/ ReceiverWake(r)
                        \/ ReceiverSpin(r)
  \/ TransportFail \/ TransportReset
  \/ SupProbeOk \/ SupProbeFail \/ SupClosed \/ SupConnect \/ SupRecover

SpecBeat == Init /\ [][NextBeat]_vars

\* Shutdown by the running flag alone: stop() is called on the running
\* system and nothing is cancelled.  Every loop is scheduled when it can run
\* and every timed wait ends; the loss of the transport and the call of
\* stop() come from outside and may or may not happen.
NextDown ==
  \/ InitConnect
  \/ \E s \in Tasks : SenderGet(s) \/ SenderSent(s) \/ SenderTimeout(s) \/ SenderWake(s)
  \/ \E r \in Tasks : ReceiverError(r) \/ ReceiverIdle(r) \/ ReceiverWake(r)
                        \/ ReceiverSpin(r)
  \/ TransportFail \/ TransportReset
  \/ SupProbeOk \/ SupProbeFail \/ SupClosed \/ SupConnect \/ SupRecover \/ SupEnd
  \/ \E a \in Activities : ActivityEnd(a)
  \/ StopRequested \/ GatherDone \/ StartFinally

Scheduling ==
  /\ \A s \in Tasks : /\ WF_vars(SenderGet(s)) /\ WF_vars(SenderSent(s))
                       /\ WF_vars(SenderTimeout(s)) /\ WF_vars(SenderWake(s))
  /\ \A r \in Tasks : /\ WF_vars(ReceiverError(r)) /\ WF_vars(ReceiverIdle(r))
                       /\ WF_vars(ReceiverWake(r))
  /\ WF_vars(SupProbeOk) /\ WF_vars(SupProbeFail) /\ WF_vars(SupClosed)
  /\ WF_vars(SupConnect) /\ WF_vars(SupRecover) /\ WF_vars(SupEnd)
  /\ \A a \in Activities : WF_vars(ActivityEnd(a))
  /\ WF_vars(GatherDone) /\ WF_vars(StartFinally)

LiveDown == Init /\ [][NextDown]_vars /\ Scheduling

\* The supervision activity reconnecting a bridge in use: feedback calls are
\* registered and their requests enqueued, envelopes are written, messages
\* of the counterpart are handled and counted, and the transport is lost
\* either way.  The supervision activity is followed from the probe that
\* fails.
NextRecon ==
  \/ InitConnect
  \/ \E c \in Calls : CallStart(c)
  \/ \E s \in Tasks : SenderGet(s) \/ SenderSent(s) \/ SenderTimeout(s)
  \/ \E r \in Tasks : ReceiverRead(r) \/ ReceiverIdle(r)
  \/ \E m \in { x \in InboundMessages : x.type = "config_update" } : Inbound(m)
  \/ TransportFail \/ TransportReset
  \/ SupProbeFail \/ SupClosed \/ SupConnect \/ SupRecover

SpecRecon == Init /\ [][NextRecon]_vars

\* The receiver loop with a counterpart that also sends what is no message,
\* and the feedback calls that fill the correlation table.
NextRecv ==
  \/ InitConnect
  \/ \E r \in Tasks : ReceiverRead(r) \/ ReceiverUndecodable(r) \/ ReceiverWake(r)
  \/ \E m \in InboundMessages : Inbound(m)
  \/ \E kind \in Undecodable : InboundUndecodable(kind)
  \/ \E c \in Calls : CallStart(c) \/ CallReturn(c)

SpecRecv == Init /\ [][NextRecv]_vars

\* The model-update activity with the feedback calls it makes, the clock,
\* the counterpart answering with or without data, and the receiver loop.
NextUpd ==
  \/ InitConnect
  \/ \E c \in Calls : UpdateRequest(c) \/ CallReturn(c) \/ CallExpire(c) \/ CallTimeout(c)
                        \/ ModelCycle(c)
  \/ \E r \in Tasks : ReceiverRead(r)
  \/ \E m \in { x \in InboundMessages : x.type = "feedback_response" } : Inbound(m)
  \/ \E rid \in 0..MaxTime, data \in FeedbackData : InboundFeedback(rid, data)
  \/ Tick

SpecUpd == Init /\ [][NextUpd]_vars

\* _send_redis applied to messages of every outbound type, on a bridge that
\* connect() has given a redis client.
NextPub ==
  \/ InitConnect
  \/ \E type \in OutboundTypes : SendRedis(type)

SpecPub == Init /\ [][NextPub]_vars

\* ------------------------------------------------------------- claims
OnWire(k) == \E i \in 1..Len(wire) : wire[i].n = k

RunningSenders == { s \in Tasks : Running(senders[s]) }

\* a second connect() has succeeded
Reconnected == \E t \in Tasks : t > 1 /\ senders[t] # "none"

\* C1: two envelopes of the same producer that are both handed to the
\* transport are handed over in the order in which they were enqueued.
FifoPerProducer ==
  \A i, j \in 1..Len(wire) :
    (i < j /\ wire[i].src = wire[j].src) => wire[i].n < wire[j].n

\* C1's case: two envelopes of one producer are on the wire while two sender
\* loops are running after a reconnect.
FifoPerProducerWitness ==
  /\ Cardinality(RunningSenders) = 2
  /\ \E i, j \in 1..Len(wire) : i < j /\ wire[i].src = wire[j].src

\* C7: once Connected is reached again after a failed probe and the queue has
\* been drained, every envelope enqueued while the transport was unusable is
\* on the wire, in enqueue order.
GapEnvelopesDelivered ==
  (Reconnected /\ Usable /\ outbound_queue = << >>
     /\ \A s \in Tasks : senders[s] # "drain")
  => /\ \A e \in dropped : ~e.gap
     /\ \A i, j \in 1..Len(wire) :
          (i < j /\ wire[i].gap /\ wire[j].gap) => wire[i].n < wire[j].n

\* C8: an envelope whose write raised is written once writes succeed again:
\* whenever a later envelope is on the wire, so is the one that failed.
FailedWriteNotLost ==
  \A e \in dropped :
    (\E i \in 1..Len(wire) : wire[i].n > e.n) => OnWire(e.n)

SingleLoopGeneration ==
  \A s, t \in Tasks :
    (s < t /\ senders[t] # "none")
      => ~Running(senders[s]) /\ ~Running(receivers[s])

Started(c) == calls[c].pc # "idle"

Finished(c) == calls[c].pc \in {"returned", "empty", "raised"}

\* the correlation table holds the Future of call c
HasEntry(c) == \E k \in DOMAIN response_futures : response_futures[k] = c

\* C2: a call that ended after its wait timed out has returned the empty
\* result, not raised, and the correlation table holds no entry under its
\* request_id.
TimeoutReturnsEmpty ==
  \A c \in Calls :
    (Finished(c) /\ calls[c].fut = "cancelled")
      => /\ calls[c].pc = "empty"
         /\ calls[c].rid \notin DOMAIN response_futures

\* C3: no two calls of one bridge use the same request_id.
UniqueRequestIds ==
  \A c, d \in Calls :
    (c # d /\ Started(c) /\ Started(d)) => calls[c].rid # calls[d].rid

\* C4: a call that has ended was either resolved by a feedback_response or
\* timed out, never both and never neither; a call whose wait has timed out
\* never returns a payload; and once its Future is resolved, or the call has
\* ended, the correlation table no longer holds that Future.
ExactlyOneOutcome ==
  \A c \in Calls :
    /\ Finished(c) => \/ calls[c].pc = "returned" /\ calls[c].fut = "resolved"
                      \/ calls[c].pc # "returned" /\ calls[c].fut = "cancelled"
    /\ calls[c].pc = "expired" => calls[c].fut = "cancelled"
    /\ (calls[c].fut = "resolved" \/ Finished(c)) => ~HasEntry(c)

\* C4's case: one call has been resolved and has returned; another has timed
\* out and ended, and the receiver has handled a feedback_response for it
\* after its Future was cancelled.
ExactlyOneOutcomeWitness ==
  \E c, d \in Calls :
    /\ calls[c].pc = "returned" /\ calls[c].fut = "resolved"
    /\ Finished(d) /\ calls[d].fut = "cancelled"
    /\ calls[c].rid # calls[d].rid
    /\ \E h \in handled : h.request_id = calls[d].rid /\ h.effect = "popped"

\* the receiver loop handles the feedback_response at the head of the inbox,
\* and its request_id is unknown, missing, or that of a request whose Future
\* is already resolved or already cancelled by the timeout
ReadsUnmatchedResponse ==
  /\ inbox # << >>
  /\ inbox' = Tail(inbox)
  /\ Head(inbox).type = "feedback_response"
  /\ LET rid == Head(inbox).request_id IN
       rid \in DOMAIN response_futures
         => calls[response_futures[rid]].fut # "pending"

\* C5: handling such a feedback_response changes neither the correlation
\* table nor the queue nor any Future, and raises nothing: the message is
\* counted as received and the loop goes on.
UnmatchedResponseIsNoop ==
  [][ ReadsUnmatchedResponse
        => /\ response_futures' = response_futures
           /\ outbound_queue' = outbound_queue
           /\ calls' = calls
           /\ messages_received' = messages_received + 1
           /\ \A r \in Tasks : receivers'[r] = "sleep" => receivers[r] = "sleep"
    ]_vars

\* the receiver loop handles the message at the head of the inbox
Reads(type) ==
  /\ inbox # << >>
  /\ inbox' = Tail(inbox)
  /\ Head(inbox).type = type

\* C6: handling a status_request appends exactly one status_response with
\* connected = true and the three counters as they are at that moment; handling
\* a message of any other type leaves the queue alone.
StatusRequestAnswered ==
  [][ /\ Reads("status_request")
        => /\ Len(outbound_queue') = Len(outbound_queue) + 1
           /\ SubSeq(outbound_queue', 1, Len(outbound_queue)) = outbound_queue
           /\ LET e == outbound_queue'[Len(outbound_queue')] IN
                /\ e.type = "status_response"
                /\ e.data.connected = TRUE
                /\ e.data.messages_sent = messages_sent
                /\ e.data.messages_received = messages_received
                /\ e.data.connection_errors = connection_errors
      /\ \A t \in InboundTypes \ {"status_request"} :
           Reads(t) => outbound_queue' = outbound_queue
    ]_vars

\* C6's case: a status_request handled after another message was received
\* left one status_response in the queue, carrying messages_received = 1.
StatusRequestAnsweredWitness ==
  /\ \E h \in handled : h.effect = "status"
  /\ Cardinality({ i \in 1..Len(outbound_queue) :
                     outbound_queue[i].type = "status_response" }) = 1
  /\ \E i \in 1..Len(outbound_queue) :
       /\ outbound_queue[i].type = "status_response"
       /\ outbound_queue[i].data.messages_received = 1

\* the envelope a step has just put at the tail of the queue
Tail1(q) == q[Len(q)]

AppendsOne == /\ Len(outbound_queue') = Len(outbound_queue) + 1
              /\ SubSeq(outbound_queue', 1, Len(outbound_queue)) = outbound_queue

FailedConnectLeavesDisconnected ==
  [][ connFails' # connFails =>
        /\ connFails' = connFails + 1
        /\ connection_errors' = connection_errors + 1
        /\ ~connected'
        /\ senders' = senders
        /\ receivers' = receivers
    ]_vars

\* an iteration of rust_communication_loop that goes straight to the
\* heartbeat: is_connected() returned true
ProbeSaidAlive ==
  /\ sup = "idle" /\ sup' = "idle"
  /\ enq' # enq
  /\ Tail1(outbound_queue').src = "supervisor"

DisconnectIdempotent ==
  [][ (Len(disc') = Len(disc) + 1 /\ (disc # << >> \/ handle = "none")) =>
        /\ disc'[Len(disc')] = "ok"
        /\ ~connected'
        /\ handle' = handle
        /\ outbound_queue' = outbound_queue
        /\ response_futures' = response_futures
        /\ << messages_sent, messages_received, connection_errors >>' =
             << messages_sent, messages_received, connection_errors >>
    ]_vars


\* C16: when initialize() fails, in a collaborator or in the bridge's
\* connect(), start() launches none of the six activities and running stays
\* false; no activity exists while start() has not got past initialize().
NoStartAfterFailedInit ==
  /\ [](starter = "new" =>
          /\ ~running
          /\ sup = "init"
          /\ \A a \in Activities : acts[a] = "none")
  /\ [][ (starter = "new" /\ (starter' = "refused" \/ connFails' > connFails)) =>
           /\ ~running'
           /\ sup' = "init"
           /\ \A a \in Activities : acts'[a] = "none"
       ]_vars


\* C17: stop() runs on every exit route of start(): once start() has returned
\* or propagated an error, stop() has been executed, the bridge is
\* disconnected and the data collaborator is closed.
StopOnEveryExit ==
  starter \in {"refused", "exited"} =>
    /\ stops >= 1
    /\ ~running
    /\ ~connected
    /\ handle # "open"
    /\ collector = "closed"


\* C18: stop() is idempotent: a stop() that follows a completed stop() raises
\* no error and leaves the system as it was: running false, bridge
\* disconnected, data collaborator closed, nothing of the bridge changed.
AfterCompletedStop ==
  /\ stops >= 1
  /\ stop_result = "ok"
  /\ ~running
  /\ ~connected

StopIdempotent ==
  [][ (AfterCompletedStop /\ stops' = stops + 1) =>
        /\ stop_result' = "ok"
        /\ ~running'
        /\ ~connected'
        /\ handle' = handle
        /\ collector' = collector
        /\ outbound_queue' = outbound_queue
        /\ << acts, sup, senders, receivers >>' = << acts, sup, senders, receivers >>
    ]_vars

\* a second stop() has completed, on a system whose first stop() closed an
\* open handle
StopIdempotentWitness ==
  /\ stops = 2
  /\ stop_result = "ok"
  /\ disc = << "ok", "ok" >>
  /\ handle = "closed"
  /\ collector = "closed"


\* C19: an exception in the body of any of the six activities is caught by
\* that activity, which sleeps and then begins another iteration; the error
\* ends neither the activity nor a sibling nor start(), and running stays
\* true.
ErrorsAreContained ==
  /\ []((starter = "gather" /\ running) =>
          /\ sup \in {"idle", "closing", "backoff", "recover"}
          /\ \A a \in Activities : acts[a] \in {"run", "recover"})
  /\ [][ starter' = "gather" =>
           /\ \A a \in Activities :
                /\ (acts[a] = "run" /\ acts'[a] # "run" /\ running) =>
                     /\ acts'[a] = "recover"
                     /\ running'
                     /\ sup' = sup
                     /\ \A b \in Activities \ {a} : acts'[b] = acts[b]
                /\ (acts[a] = "recover" /\ acts'[a] # "recover" /\ running) =>
                     acts'[a] = "run"
           /\ (sup = "closing" /\ sup' \notin {"closing", "backoff"}) =>
                /\ sup' = "recover"
                /\ running' = running
                /\ acts' = acts
           /\ (sup = "recover" /\ sup' # "recover" /\ running) => sup' = "idle"
       ]_vars

\* the MEV scan and the supervision activity are both in their except
\* branch while a sibling is in its loop and the system is running
ErrorsAreContainedWitness ==
  /\ starter = "gather"
  /\ running
  /\ acts["mev_detection_loop"] = "recover"
  /\ sup = "recover"
  /\ acts["prediction_loop"] = "run"
  /\ mev_detected >= 1


\* C20: a scanned opportunity is enqueued to the bridge exactly when its
\* confidence is above the threshold (75 at threshold 80 never is, 85 is),
\* and mev_opportunities_detected grows by one for each opportunity enqueued
\* and by nothing for one filtered.
MevEnvelopes(q) == SelectSeq(q, LAMBDA e : e.type = "mev_opportunity")

MevFilterAndCount ==
  /\ [](/\ mev_detected = Len(passed)
        /\ \A i \in 1..Len(outbound_queue) :
             outbound_queue[i].type = "mev_opportunity" =>
               outbound_queue[i].data.confidence > MinConfidence)
  /\ [][ LET new == SubSeq(passed', Len(passed) + 1, Len(passed'))
             old == Len(MevEnvelopes(outbound_queue))
             after == MevEnvelopes(outbound_queue')
         IN  /\ Len(after) = old + Len(new)
             /\ \A i \in 1..Len(new) : after[old + i].data.confidence = new[i]
             /\ mev_detected' = mev_detected + Len(new)
       ]_vars

\* an opportunity of confidence 85 has been scanned: one envelope, carrying
\* 85, and one count
MevFilterAndCountWitness ==
  /\ passed = << 85 >>
  /\ mev_detected = 1
  /\ Len(MevEnvelopes(outbound_queue)) = 1
  /\ MevEnvelopes(outbound_queue)[1].data.confidence = 85


\* C21: in any window of 120 time-units between 3 and 5 heartbeats are
\* enqueued, probes failing and reconnects being attempted or not.  A window
\* holds three heartbeats at least, so the supervision activity is never a
\* whole window past its latest heartbeat; and it holds five at most, so a
\* heartbeat is never enqueued less than a quarter of the interval after the
\* one before.
HeartbeatCadence ==
  /\ [](silence < Window)
  /\ [][ \A i \in 1..Len(outbound_queue') :
           (i > Len(outbound_queue) /\ outbound_queue'[i].type = "heartbeat"
              /\ \E j \in 1..Len(outbound_queue) : outbound_queue[j].type = "heartbeat")
             => 4 * silence >= SupervisionInterval
       ]_vars


\* C22: the supervision activity calls reconnect() only in an iteration whose
\* probe returned false: with the flag set and the handle open an iteration
\* goes no further than its heartbeat.  A heartbeat that is lost, left in the
\* queue or failed in the write moves neither the supervision activity nor
\* the flag nor the handle.
ReconnectOnlyOnFailedProbe ==
  [][ /\ (sup = "idle" /\ sup' # "idle") => ~(connected /\ handle = "open")
      /\ (sup = "idle" /\ connected /\ handle = "open") =>
           UNCHANGED << connected, connFails, disc >>
      /\ (dropped' # dropped \/ wire' # wire) =>
           UNCHANGED << sup, connected, handle, connFails, disc >>
    ]_vars

\* a heartbeat was lost in a failed write and one more is waiting in the
\* queue, on a transport that is still open, and the supervision activity
\* has never reconnected
ReconnectOnlyOnFailedProbeWitness ==
  /\ \E e \in dropped : e.type = "heartbeat"
  /\ \E i \in 1..Len(outbound_queue) : outbound_queue[i].type = "heartbeat"
  /\ connected /\ handle = "open"
  /\ sup = "idle"
  /\ ~Reconnected
  /\ connFails = 0


\* C23: once stop() has cleared the running flag, each of the six activities
\* and each sender and receiver loop of the bridge leaves its wait and ends
\* by itself, nothing being cancelled.
AllEnded ==
  /\ sup = "done"
  /\ \A a \in Activities : acts[a] = "done"
  /\ \A t \in Tasks : ~Running(senders[t]) /\ ~Running(receivers[t])

\* a bound of the model has been reached: a connect() or a heartbeat that the
\* program would go on to is not taken
AtBound == enq >= MaxEnq \/ connFails >= MaxErrors \/ NewTask \notin Tasks

\* C23, as a formula: from any state in which stop() has cleared the flag, a
\* state is reached in which every activity and every bridge loop has ended.
CooperativeShutdown == (stops >= 1 /\ ~running) ~> (AllEnded \/ AtBound)


\* C24: on the publish/subscribe protocol a message the counterpart publishes
\* while the bridge is connected is eventually read by the receiver loop and
\* dispatched: the k-th message published is followed by a k-th message
\* received.
PublishedIsReceived ==
  \A k \in 1..MaxInbound :
    (protocol = "redis" /\ arrived >= k) ~> (messages_received >= k)


\* C25: every envelope put on the outbound queue has a type of the closed
\* set of recognized types and carries type, data and timestamp at the top
\* level, whichever operation built it.
RecognizedTypes ==
  { "prediction", "mev_opportunity", "metrics", "heartbeat", "request_feedback",
    "feedback_response", "config_update", "status_request", "status_response" }

WellFormedEnvelopes ==
  \A i \in 1..Len(outbound_queue) :
    /\ outbound_queue[i].type \in RecognizedTypes
    /\ {"type", "data", "timestamp"} \subseteq outbound_queue[i].keys


\* C26: on the publish/subscribe protocol an outbound envelope of type T is
\* published on the channel named outbound_T.
PublishedOnOutbound ==
  \A i \in 1..Len(published) :
    published[i].channel = << "outbound", published[i].type >>


\* C27: an inbound message of unknown type, or one that cannot be decoded,
\* is dropped alone: the step that consumes it leaves the outbound queue, the
\* correlation table and the pending calls as they were and the receiver loop
\* running, and a connected receiver with a message waiting can always go on
\* to it.
Discarded(d) == d.type = "unknown" \/ Raises(d)

DropsAlone ==
  /\ [][ (inbox # << >> /\ inbox' = Tail(inbox) /\ Discarded(Head(inbox)))
           => /\ UNCHANGED << outbound_queue, response_futures, calls >>
              /\ \A r \in Tasks : Running(receivers[r]) => Running(receivers'[r]) ]_vars
  /\ [](  (protocol # "redis" /\ connected /\ inbox # << >>)
            => \E r \in Tasks :
                 ENABLED (ReceiverRead(r) \/ ReceiverUndecodable(r) \/ ReceiverWake(r)) )

\* a message of unknown type was discarded and counted, and the status
\* request behind it was answered (its answer reports one message received);
\* the correlation table holds a call
DropsAloneWitness ==
  /\ \E h \in handled : h.effect = "unknown"
  /\ \E i \in 1..Len(outbound_queue) :
       /\ outbound_queue[i].type = "status_response"
       /\ outbound_queue[i].data.messages_received = 1
  /\ DOMAIN response_futures # {}
  /\ messages_received = 2


\* C28: reconnect() leaves the content and order of the outbound queue, the
\* correlation table and the messages_sent and messages_received counters
\* unchanged; of the bridge's fields it changes only the transport handle,
\* the connected flag and, when connect() fails, connection_errors.  (The
\* heartbeat of the same iteration is appended behind what was queued.)
ReconnectStep == sup \in {"idle", "closing", "backoff"} /\ sup' # sup

ReconnectFrame ==
  [][ ReconnectStep =>
        /\ UNCHANGED << response_futures, messages_sent, messages_received >>
        /\ IF sup = "backoff"
           THEN /\ Len(outbound_queue') = Len(outbound_queue) + 1
                /\ SubSeq(outbound_queue', 1, Len(outbound_queue)) = outbound_queue
                /\ outbound_queue'[Len(outbound_queue')].type = "heartbeat"
           ELSE outbound_queue' = outbound_queue
        /\ connection_errors' # connection_errors
             => /\ sup = "backoff"
                /\ connection_errors' = connection_errors + 1 ]_vars

\* a reconnect() has succeeded on a bridge that had sent and received
\* messages and held a registered call whose request is still queued, ahead
\* of the heartbeat that followed the reconnect
ReconnectFrameWitness ==
  /\ Reconnected
  /\ sup = "idle"
  /\ messages_sent >= 1
  /\ messages_received >= 1
  /\ DOMAIN response_futures # {}
  /\ Len(outbound_queue) >= 2
  /\ outbound_queue[1].type = "request_feedback"
  /\ outbound_queue[Len(outbound_queue)].type = "heartbeat"


\* C29: while the bridge is disconnected or its transport is failing, the
\* activities that produce envelopes go on: with the system running and the
\* bridge not usable, the MEV scan can take its next iteration and enqueue
\* what it found, and a prediction can be enqueued.
ProducersKeepGoing ==
  ( /\ running
    /\ sup # "init"
    /\ ~Usable
    /\ acts["mev_detection_loop"] = "run"
    /\ enq < MaxEnq )
    => /\ ENABLED MevScan(<< 85 >>)
       /\ ENABLED Send("prediction")


\* C30: on every protocol each iteration of the receiver loop passes through
\* a suspension point, so that a receiver loop in its read never keeps the
\* orchestrator's activities from running: a metrics report can be enqueued.
ReceiverYields ==
  \A r \in Tasks :
    receivers[r] = "recv"
      => /\ Suspends(protocol)
         /\ (sup # "init" /\ enq < MaxEnq) => ENABLED Send("metrics")


\* C31: in an iteration of the model-update cycle update_models is called
\* and accuracy_score recomputed only if the feedback request returned a
\* non-empty result; when the feedback is empty or the request timed out,
\* accuracy_score is unchanged and the iteration ends with the full cycle
\* wait; when the iteration raises, it ends with the recovery wait.
TimedOut(c) == calls[c].fut = "cancelled"

ModelUpdateCycle ==
  [][ \A c \in Calls :
        (Len(cycles) = c - 1 /\ Len(cycles') = c)
          => /\ (model_updates' # model_updates \/ accuracy_score' # accuracy_score)
                  => (calls[c].pc = "returned" /\ feedback[c] = "data")
             /\ (TimedOut(c) \/ (calls[c].pc = "returned" /\ feedback[c] # "data"))
                  => (accuracy_score' = accuracy_score /\ cycles'[c] = UpdateInterval)
             /\ calls[c].pc = "raised" => cycles'[c] = UpdateRecoverPause ]_vars


\* C32: once stop() has completed the bridge stays disconnected: no later
\* step of an activity that was inside an iteration when stop() ran sets the
\* connected flag, starts a sender or receiver loop, or hands an envelope to
\* the transport.
StopCompleted == stops >= 1 /\ stop_result = "ok"

StaysDisconnected ==
  [][ StopCompleted =>
        /\ ~connected'
        /\ \A t \in Tasks : /\ senders[t] = "none" => senders'[t] = "none"
                            /\ receivers[t] = "none" => receivers'[t] = "none"
        /\ wire' = wire ]_vars


\* C33: message conservation.  In every reachable state the number of
\* envelopes ever enqueued equals those still in the outbound queue, plus
\* the one a sender loop holds, plus messages_sent, plus the failed writes
\* the bridge has counted; messages_sent is the number of envelopes written
\* to the transport whose write has returned, and it never decreases.
Held == Cardinality({ s \in Tasks : senders[s] = "drain" })

\* connection_errors counts the failed writes and the failed connects
FailedWrites == connection_errors - connFails

MessageConservation ==
  /\ [](enq = Len(outbound_queue) + Held + messages_sent + FailedWrites)
  /\ [](messages_sent = Len(wire) - Held)
  /\ [][messages_sent' >= messages_sent]_vars

====
